---- MODULE Spec2Model ----
(***************************************************************************)
(* A model of the TLV wire codec of lnd as sampled in src/: the Boolean    *)
(* record (lnwire.Boolean), the NodeAnnouncement2 message with its RGB,    *)
(* alias and address-list records, the wireMsg test message, and the       *)
(* blinded route data round trip exercised by record.TestBlindedData-      *)
(* Encoding.  Bytes are naturals 0..255, buffers are sequences of bytes.   *)
(* The tlv package itself (varint, record, stream, extraction) is not part *)
(* of the sampled files and is modelled from the specification text.       *)
(* Beside the codec: lncfg.Invoices.Validate and the ping manager as       *)
(* TestPingManager drives it.                                              *)
(***************************************************************************)
EXTENDS Integers, Sequences, FiniteSets, TLC

VARIABLES
    fc,     \* the last call of a field encoder / decoder and its outcome
    wm,     \* the wireMsg scenario of TestBooleanRecord
    na,     \* the NodeAnnouncement2 scenario
    brd,    \* the blinded route data scenario
    sc,     \* the last call of the stream parser / the varint codec
    pm,     \* the ping manager scenario of TestPingManager
    iv      \* the last call of Invoices.Validate

vars == <<fc, wm, na, brd, sc, pm, iv>>

(***************************************************************************)
(* Bounds of the model.                                                    *)
(***************************************************************************)
MaxAddrs == 2        \* most entries of an address list
MaxAliasPad == 31    \* most ASCII bytes put in front of an alias tail
MaxBoolLen == 2      \* largest declared length handed to booleanDecoder
MaxExtraLen == 1     \* most bytes a declared list length is off a multiple

(***************************************************************************)
(* Byte-sequence helpers.                                                  *)
(***************************************************************************)
Byte == 0..255

Nil == <<>>

Repeat(b, n) == [i \in 1..n |-> b]

Take(s, n) == IF n >= Len(s) THEN s ELSE SubSeq(s, 1, n)

Drop(s, n) == IF n >= Len(s) THEN <<>> ELSE SubSeq(s, n + 1, Len(s))

RECURSIVE Flatten(_)
Flatten(ss) == IF ss = <<>> THEN <<>> ELSE Head(ss) \o Flatten(Tail(ss))

\* binary.BigEndian.PutUint16(port[:], uint16(p)): the conversion truncates.
PutUint16(p) == << (p % 65536) \div 256, p % 256 >>

\* binary.BigEndian.Uint16
Uint16(b) == b[1] * 256 + b[2]

(***************************************************************************)
(* The tlv package, modelled from the specification: the variable-length   *)
(* integer of section 4.1, the record of 4.2, the stream of 4.3 and the    *)
(* extraction of 4.4.                                                      *)
(***************************************************************************)
Err(v) == [err |-> TRUE, out |-> v]

Ok(v) == [err |-> FALSE, out |-> v]

\* An unsigned 64-bit integer is held at full width, as its 8 big-endian
\* bytes; U64 is that form of a natural below 2^31 and Nat64 the way back.
U64(n) ==
    << 0, 0, 0, 0, n \div 16777216, (n \div 65536) % 256, (n \div 256) % 256, n % 256 >>

FitsNat(v) == SubSeq(v, 1, 4) = << 0, 0, 0, 0 >> /\ v[5] < 128

Nat64(v) == v[5] * 16777216 + v[6] * 65536 + v[7] * 256 + v[8]

\* the u64 a payload of 1, 2, 4 or 8 bytes stands for
Widen(payload) == Repeat(0, 8 - Len(payload)) \o payload

\* encode(u64) -> bytes: the shortest of the four forms that holds the value
BigSizeEncode(v) ==
    IF SubSeq(v, 1, 7) = Repeat(0, 7) /\ v[8] < 253 THEN << v[8] >>
    ELSE IF SubSeq(v, 1, 6) = Repeat(0, 6) THEN << 253, v[7], v[8] >>
    ELSE IF SubSeq(v, 1, 4) = Repeat(0, 4) THEN << 254 >> \o SubSeq(v, 5, 8)
    ELSE << 255 >> \o v

\* the result of a decode
VarInt(ok, val, used) == [ok |-> ok, val |-> val, used |-> used]

\* the outcome for a prefixed form of w payload bytes: short input fails, and
\* so does a payload that a shorter form could hold
BigSizePayload(b, w, canonical) ==
    IF Len(b) < 1 + w THEN VarInt(FALSE, U64(0), 0)
    ELSE VarInt(canonical, Widen(SubSeq(b, 2, 1 + w)), 1 + w)

\* A decoder without the check for the shortest form.
BigSizeDecodeAnyWidth(b) ==
    IF Len(b) = 0 THEN VarInt(FALSE, U64(0), 0)
    ELSE IF b[1] < 253 THEN VarInt(TRUE, U64(b[1]), 1)
    ELSE IF b[1] = 253 THEN BigSizePayload(b, 2, TRUE)
    ELSE IF b[1] = 254 THEN BigSizePayload(b, 4, TRUE)
    ELSE BigSizePayload(b, 8, TRUE)

\* decode(bytes) -> (u64, bytes_consumed); a non-minimal or truncated form
\* is rejected.
BigSizeDecode(b) ==
    IF Len(b) = 0 THEN VarInt(FALSE, U64(0), 0)
    ELSE IF b[1] < 253 THEN VarInt(TRUE, U64(b[1]), 1)
    ELSE IF b[1] = 253
         THEN BigSizePayload(b, 2, Len(b) >= 3 /\ (b[2] # 0 \/ b[3] >= 253))
    ELSE IF b[1] = 254
         THEN BigSizePayload(b, 4, Len(b) >= 5 /\ (b[2] # 0 \/ b[3] # 0))
    ELSE BigSizePayload(b, 8, Len(b) >= 9 /\ SubSeq(b, 2, 5) # Repeat(0, 4))

\* the codec on the naturals a type or a length takes in the streams below
WriteVarInt(n) == BigSizeEncode(U64(n))

NatVarInt(d) ==
    IF d.ok /\ FitsNat(d.val) THEN [ok |-> TRUE, val |-> Nat64(d.val), used |-> d.used]
    ELSE [ok |-> FALSE, val |-> 0, used |-> 0]

ReadVarInt(b) == NatVarInt(BigSizeDecode(b))

\* A record producer, evaluated: its type, the length its size function
\* declares, and what its encoder returns (error or the bytes written).
Producer(t, size, enc) == [type |-> t, size |-> size, enc |-> enc]

\* Record.encode: (type, length, value) into the byte sink.
EncodeRecord(p) == WriteVarInt(p.type) \o WriteVarInt(p.size) \o p.enc.out

\* Stream.encode: the records in the order the caller supplies them; the
\* codec does not sort.  The first encoder error aborts.
RECURSIVE StreamEncode(_)
StreamEncode(ps) ==
    IF ps = <<>> THEN Ok(<<>>)
    ELSE IF Head(ps).enc.err THEN Err(<<>>)
    ELSE LET rest == StreamEncode(Tail(ps))
         IN  IF rest.err THEN Err(<<>>)
             ELSE Ok(EncodeRecord(Head(ps)) \o rest.out)

\* A parser that does not compare a type with the one before it.
RECURSIVE ParseFromAnyOrder(_, _)
ParseFromAnyOrder(b, min) ==
    IF b = <<>> THEN [ok |-> TRUE, recs |-> <<>>]
    ELSE LET t == ReadVarInt(b)
             b1 == Drop(b, t.used)
             l == ReadVarInt(b1)
             b2 == Drop(b1, l.used)
         IN  IF ~t.ok \/ ~l.ok \/ l.val > Len(b2)
             THEN [ok |-> FALSE, recs |-> <<>>]
             ELSE LET more == ParseFromAnyOrder(Drop(b2, l.val), t.val + 1)
                  IN  [ok |-> more.ok,
                       recs |-> IF more.ok
                                THEN << [type |-> t.val, val |-> Take(b2, l.val)] >>
                                     \o more.recs
                                ELSE <<>>]

\* Stream.parse: (type, raw value bytes) pairs.  min is the least type the
\* next record may carry (0 at the start).
RECURSIVE ParseFrom(_, _)
ParseFrom(b, min) ==
    IF b = <<>> THEN [ok |-> TRUE, recs |-> <<>>]
    ELSE LET t == ReadVarInt(b)
             b1 == Drop(b, t.used)
             l == ReadVarInt(b1)
             b2 == Drop(b1, l.used)
         IN  IF ~t.ok \/ t.val < min \/ ~l.ok \/ l.val > Len(b2)
             THEN [ok |-> FALSE, recs |-> <<>>]
             ELSE LET more == ParseFrom(Drop(b2, l.val), t.val + 1)
                  IN  [ok |-> more.ok,
                       recs |-> IF more.ok
                                THEN << [type |-> t.val, val |-> Take(b2, l.val)] >>
                                     \o more.recs
                                ELSE <<>>]

ParseStream(b) == ParseFrom(b, 0)

\* The bytes of raw records, each with its original value bytes.
RECURSIVE SerializeRaw(_)
SerializeRaw(recs) ==
    IF recs = <<>> THEN <<>>
    ELSE WriteVarInt(Head(recs).type) \o WriteVarInt(Len(Head(recs).val))
         \o Head(recs).val \o SerializeRaw(Tail(recs))

\* What a decoder returns: the error, the target after the call, and the
\* number of bytes it consumed from the reader.
Decoded(e, v, n) == [err |-> e, val |-> v, used |-> n]

(***************************************************************************)
(* lnwire.Boolean (src/unnamed/part_004).                                  *)
(***************************************************************************)
\* A size function that declares one byte whatever the value.
BooleanSizeAlwaysOne(b) == 1

\* Boolean.size
BooleanSize(b) == IF b THEN 0 ELSE 1

\* booleanEncoder: nothing for true, the byte 0 for false.
booleanEncoder(v) == IF v THEN Ok(<<>>) ELSE Ok(<< 0 >>)

\* A decoder that takes any non-zero byte for true.
booleanDecoderAnyByte(r, v, l) ==
    IF l = 0 THEN Decoded(FALSE, TRUE, 0)
    ELSE IF l = 1 /\ Len(r) >= 1 THEN Decoded(FALSE, r[1] # 0, 1)
    ELSE Decoded(TRUE, v, 0)

\* A decoder that tests only for length zero and reads one byte otherwise.
booleanDecoderAnyLength(r, v, l) ==
    IF l = 0 THEN Decoded(FALSE, TRUE, 0)
    ELSE IF Len(r) < 1 THEN Decoded(TRUE, v, 0)
    ELSE IF r[1] # 0 /\ r[1] # 1 THEN Decoded(TRUE, v, 1)
    ELSE Decoded(FALSE, r[1] # 0, 1)

\* booleanDecoder(r, val, buf, l): r is the reader's content, v the target.
booleanDecoder(r, v, l) ==
    IF l = 0 \/ l = 1 THEN
        IF l = 0 THEN Decoded(FALSE, TRUE, 0)
        ELSE IF Len(r) < 1 THEN Decoded(TRUE, v, 0)
        ELSE IF r[1] # 0 /\ r[1] # 1 THEN Decoded(TRUE, v, 1)
        ELSE Decoded(FALSE, r[1] # 0, 1)
    ELSE Decoded(TRUE, v, 0)

\* The primitive bool record of the tlv package (tlv.ZeroRecordT[_, bool]):
\* one explicit byte.
EBool(v) == IF v THEN Ok(<< 1 >>) ELSE Ok(<< 0 >>)

(***************************************************************************)
(* Readers.  r is what is left to read; a Read of n bytes on a bytes       *)
(* reader fails with EOF when n > 0 and nothing is left, and otherwise     *)
(* copies what there is (at most n bytes) over the front of the buffer.    *)
(* A zero-length Read succeeds.                                            *)
(***************************************************************************)
ReadEOF(r, n) == n > 0 /\ Len(r) = 0

ReadInto(buf, r) == Take(r, Len(buf)) \o Drop(buf, Len(Take(r, Len(buf))))

(***************************************************************************)
(* net.IP conversions (Go standard library).                               *)
(***************************************************************************)
V4InV6Prefix == Repeat(0, 10) \o << 255, 255 >>

To4(ip) ==
    IF Len(ip) = 4 THEN ip
    ELSE IF Len(ip) = 16 /\ Take(ip, 12) = V4InV6Prefix THEN Drop(ip, 12)
    ELSE Nil

To16(ip) ==
    IF Len(ip) = 4 THEN V4InV6Prefix \o ip
    ELSE IF Len(ip) = 16 THEN ip
    ELSE Nil

(***************************************************************************)
(* tor.Base32Encoding: RFC 4648 base32 over the lower-case alphabet        *)
(* "abcdefghijklmnopqrstuvwxyz234567".  Characters are ASCII codes.  Only  *)
(* whole 40-bit groups occur (35 bytes <-> 56 characters).                 *)
(***************************************************************************)
B32Val(c) ==
    IF c >= 97 /\ c <= 122 THEN c - 97
    ELSE IF c >= 50 /\ c <= 55 THEN c - 24
    ELSE -1

B32Char(v) == IF v < 26 THEN 97 + v ELSE 24 + v

Pow2(k) == CASE k = 0 -> 1 [] k = 1 -> 2 [] k = 2 -> 4 [] k = 3 -> 8
             [] k = 4 -> 16 [] k = 5 -> 32 [] k = 6 -> 64 [] k = 7 -> 128

\* bit i (1 = most significant) of the w-bit number v
BitOf(v, w, i) == (v \div Pow2(w - i)) % 2

\* the bits of a sequence of w-bit numbers, most significant first
BitsOf(vs, w) ==
    [k \in 1..(w * Len(vs)) |-> BitOf(vs[((k - 1) \div w) + 1], w, ((k - 1) % w) + 1)]

RECURSIVE BitsValue(_, _, _)
BitsValue(bits, from, w) ==
    IF w = 0 THEN 0
    ELSE BitsValue(bits, from, w - 1) * 2 + bits[from + w - 1]

\* regroup bits into w-bit numbers
Regroup(bits, w) ==
    [j \in 1..(Len(bits) \div w) |-> BitsValue(bits, (j - 1) * w + 1, w)]

\* Base32Encoding.DecodeString
Base32Decode(s) ==
    IF \E i \in 1..Len(s) : B32Val(s[i]) < 0 THEN Err(<<>>)
    ELSE Ok(Regroup(BitsOf([i \in 1..Len(s) |-> B32Val(s[i])], 5), 8))

\* Base32Encoding.EncodeToString
Base32Encode(b) ==
    LET syms == Regroup(BitsOf(b, 8), 5)
    IN  [i \in 1..Len(syms) |-> B32Char(syms[i])]

\* tor.V3DecodedLen, tor.V3Len, tor.OnionSuffixLen, tor.OnionSuffix
V3DecodedLen == 35

V3Len == 62

OnionSuffixLen == 6

OnionSuffix == << 46, 111, 110, 105, 111, 110 >>

(***************************************************************************)
(* unicode/utf8.ValidString (Go standard library).                         *)
(***************************************************************************)
Cont(b) == b >= 128 /\ b <= 191

RECURSIVE ValidUTF8(_)
ValidUTF8(s) ==
    IF s = <<>> THEN TRUE
    ELSE LET b == s[1]
             n == Len(s)
         IN  IF b < 128 THEN ValidUTF8(Drop(s, 1))
             ELSE IF b >= 194 /\ b <= 223 THEN
                 n >= 2 /\ Cont(s[2]) /\ ValidUTF8(Drop(s, 2))
             ELSE IF b >= 224 /\ b <= 239 THEN
                 /\ n >= 3
                 /\ IF b = 224 THEN s[2] >= 160 /\ s[2] <= 191
                    ELSE IF b = 237 THEN s[2] >= 128 /\ s[2] <= 159
                    ELSE Cont(s[2])
                 /\ Cont(s[3])
                 /\ ValidUTF8(Drop(s, 3))
             ELSE IF b >= 240 /\ b <= 244 THEN
                 /\ n >= 4
                 /\ IF b = 240 THEN s[2] >= 144 /\ s[2] <= 191
                    ELSE IF b = 244 THEN s[2] >= 128 /\ s[2] <= 143
                    ELSE Cont(s[2])
                 /\ Cont(s[3])
                 /\ Cont(s[4])
                 /\ ValidUTF8(Drop(s, 4))
             ELSE FALSE

(***************************************************************************)
(* RGBColor (src/unnamed/part_003).  A colour is [R, G, B, A].             *)
(***************************************************************************)
\* lnwire.WriteColorRGBA: the three colour bytes.
WriteColorRGBA(c) == << c.R, c.G, c.B >>

rgbEncoder(v) == Ok(WriteColorRGBA(v))

\* rgbDecoder: ReadElements(r, &v.R, &v.G, &v.B) reads one byte after the
\* other and stops at the first that is missing; l is not looked at.
rgbDecoder(r, v, l) ==
    IF Len(r) = 0 THEN Decoded(TRUE, v, 0)
    ELSE IF Len(r) = 1 THEN Decoded(TRUE, [v EXCEPT !.R = r[1]], 1)
    ELSE IF Len(r) = 2 THEN Decoded(TRUE, [v EXCEPT !.R = r[1], !.G = r[2]], 2)
    ELSE Decoded(FALSE, [v EXCEPT !.R = r[1], !.G = r[2], !.B = r[3]], 3)

(***************************************************************************)
(* Address lists (src/unnamed/part_003).  A net.TCPAddr is [IP, Port], a   *)
(* tor.OnionAddr is [OnionService, Port]; a list is a sequence of them.    *)
(***************************************************************************)
ipv4AddrEncodedSize == 4 + 2

ipv6AddrEncodedSize == 16 + 2

torV3AddrEncodedSize == V3DecodedLen + 2

\* IPV4Addrs.EncodedSize, IPV6Addrs.EncodedSize, TorV3Addrs.EncodedSize
IPV4EncodedSize(v) == Len(v) * ipv4AddrEncodedSize

IPV6EncodedSize(v) == Len(v) * ipv6AddrEncodedSize

TorV3EncodedSize(v) == Len(v) * torV3AddrEncodedSize

\* ipv4AddrsEncoder: the loop body returns at the end of its first turn;
\* with no entry the function falls through to the type error.
ipv4AddrsEncoder(v) ==
    IF Len(v) > 0 THEN Ok(To4(v[1].IP) \o PutUint16(v[1].Port))
    ELSE Err(<<>>)

\* ipv6AddrsEncoder: as ipv4AddrsEncoder, with To16.
ipv6AddrsEncoder(v) ==
    IF Len(v) > 0 THEN Ok(To16(v[1].IP) \o PutUint16(v[1].Port))
    ELSE Err(<<>>)

\* torV3AddrsEncoder: the first entry only; the host is the base32 decoding
\* of the service name without its suffix.
torV3AddrsEncoder(v) ==
    IF Len(v) > 0 THEN
        LET host == Base32Decode(Take(v[1].OnionService, V3Len - OnionSuffixLen))
        IN  IF host.err THEN Err(<<>>)
            ELSE IF Len(host.out) # V3DecodedLen THEN Err(<<>>)
            ELSE Ok(host.out \o PutUint16(v[1].Port))
    ELSE Err(<<>>)

\* The loop of ipv4AddrsDecoder and ipv6AddrsDecoder: n entries are still to
\* read, ip is the one array every entry's IP slice refers to, ports the
\* ports read so far.
RECURSIVE ReadAddrs(_, _, _, _, _)
ReadAddrs(r, n, ip, ports, used) ==
    IF n = 0 THEN [err |-> FALSE, ip |-> ip, ports |-> ports, used |-> used]
    ELSE IF ReadEOF(r, Len(ip))
    THEN [err |-> TRUE, ip |-> ip, ports |-> ports, used |-> used]
    ELSE LET ip1 == ReadInto(ip, r)
             r1 == Drop(r, Len(ip))
         IN  IF ReadEOF(r1, 2)
             THEN [err |-> TRUE, ip |-> ip1, ports |-> ports,
                   used |-> used + Len(r) - Len(r1)]
             ELSE LET port == ReadInto(<< 0, 0 >>, r1)
                      r2 == Drop(r1, 2)
                  IN  ReadAddrs(r2, n - 1, ip1, Append(ports, Uint16(port)),
                                used + Len(r) - Len(r2))

\* The list the loop leaves: every entry holds a slice of the same array,
\* so every entry shows the bytes read last.
AliasedAddrs(res) == [i \in 1..Len(res.ports) |-> [IP |-> res.ip, Port |-> res.ports[i]]]

\* A decoder that does not look at the remainder of the length.
ipv4AddrsDecoderNoCheck(r, v, l) ==
    LET res == ReadAddrs(r, l \div ipv4AddrEncodedSize, Repeat(0, 4), <<>>, 0)
    IN  IF res.err THEN Decoded(TRUE, v, res.used)
        ELSE Decoded(FALSE, AliasedAddrs(res), res.used)

ipv4AddrsDecoder(r, v, l) ==
    IF l % ipv4AddrEncodedSize # 0 THEN Decoded(TRUE, v, 0)
    ELSE LET res == ReadAddrs(r, l \div ipv4AddrEncodedSize, Repeat(0, 4), <<>>, 0)
         IN  IF res.err THEN Decoded(TRUE, v, res.used)
             ELSE Decoded(FALSE, AliasedAddrs(res), res.used)

ipv6AddrsDecoder(r, v, l) ==
    IF l % ipv6AddrEncodedSize # 0 THEN Decoded(TRUE, v, 0)
    ELSE LET res == ReadAddrs(r, l \div ipv6AddrEncodedSize, Repeat(0, 16), <<>>, 0)
         IN  IF res.err THEN Decoded(TRUE, v, res.used)
             ELSE Decoded(FALSE, AliasedAddrs(res), res.used)

\* The loop of torV3AddrsDecoder: the service name is a string built from
\* the array at each turn, so the entries do not share it.
RECURSIVE ReadOnions(_, _, _, _, _)
ReadOnions(r, n, ip, addrs, used) ==
    IF n = 0 THEN [err |-> FALSE, addrs |-> addrs, used |-> used]
    ELSE IF ReadEOF(r, Len(ip)) THEN [err |-> TRUE, addrs |-> addrs, used |-> used]
    ELSE LET ip1 == ReadInto(ip, r)
             r1 == Drop(r, Len(ip))
         IN  IF ReadEOF(r1, 2)
             THEN [err |-> TRUE, addrs |-> addrs, used |-> used + Len(r) - Len(r1)]
             ELSE LET port == ReadInto(<< 0, 0 >>, r1)
                      r2 == Drop(r1, 2)
                      a == [OnionService |-> Base32Encode(ip1) \o OnionSuffix,
                            Port |-> Uint16(port)]
                  IN  ReadOnions(r2, n - 1, ip1, Append(addrs, a),
                                 used + Len(r) - Len(r2))

torV3AddrsDecoder(r, v, l) ==
    IF l % torV3AddrEncodedSize # 0 THEN Decoded(TRUE, v, 0)
    ELSE LET res == ReadOnions(r, l \div torV3AddrEncodedSize,
                               Repeat(0, V3DecodedLen), <<>>, 0)
         IN  IF res.err THEN Decoded(TRUE, v, res.used)
             ELSE Decoded(FALSE, res.addrs, res.used)

(***************************************************************************)
(* FlexibleNodeAlias (src/unnamed/part_003).                               *)
(***************************************************************************)
MaxAliasLen == 32

\* the size function of FlexibleNodeAlias.Record
AliasSize(v) == Len(v)

\* A decoder without the length limit.
decodeFlexibleAliasNoLimit(r, v, l) ==
    IF ReadEOF(r, l) THEN Decoded(TRUE, v, 0)
    ELSE Decoded(FALSE, ReadInto(Repeat(0, l), r), Len(Take(r, l)))

decodeFlexibleAlias(r, v, l) ==
    IF l > MaxAliasLen THEN Decoded(TRUE, v, 0)
    ELSE IF ReadEOF(r, l) THEN Decoded(TRUE, v, 0)
    ELSE Decoded(FALSE, ReadInto(Repeat(0, l), r), Len(Take(r, l)))

encodeFlexibleAlias(v) ==
    IF Len(v) > MaxAliasLen THEN Err(<<>>)
    ELSE IF ~ValidUTF8(v) THEN Err(<<>>)
    ELSE Ok(v)

(***************************************************************************)
(* Values the calls are made with.                                         *)
(***************************************************************************)
SeqsUpTo(S, n) == UNION { [1..k -> S] : k \in 0..n }

\* l bytes that differ from place to place
PatternBytes(seed, l) == [i \in 1..l |-> (seed * i + 1) % 256]

V4Samples ==
    { [IP |-> << 10, 0, 0, 1 >>, Port |-> 9735],
      [IP |-> V4InV6Prefix \o << 192, 168, 1, 2 >>, Port |-> 65535] }

V6Samples ==
    { [IP |-> << 32, 1, 13, 184 >> \o Repeat(0, 11) \o << 1 >>, Port |-> 9735],
      [IP |-> << 254, 128 >> \o Repeat(0, 13) \o << 2 >>, Port |-> 80] }

OnionSamples ==
    { [OnionService |-> Base32Encode(PatternBytes(3, V3DecodedLen)) \o OnionSuffix,
       Port |-> 9735],
      [OnionService |-> Base32Encode(PatternBytes(7, V3DecodedLen)) \o OnionSuffix,
       Port |-> 443] }

\* the declared lengths handed to a list decoder of the given stride
ListLengths(stride) ==
    { k * stride + e : k \in 0..MaxAddrs, e \in 0..MaxExtraLen }

\* alias bytes: ASCII padding, then an ASCII, a two-byte, a three-byte, an
\* invalid or a truncated character
AliasTails ==
    { <<>>, << 97 >>, << 195, 169 >>, << 226, 130, 172 >>, << 255 >>, << 195 >> }

AliasSamples == { Repeat(97, n) \o t : n \in 0..MaxAliasPad, t \in AliasTails }

BoolBytes == { 0, 1, 2, 255 }

ColourSamples == { [R |-> 1, G |-> 2, B |-> 3, A |-> 0], [R |-> 255, G |-> 0, B |-> 128, A |-> 0] }

ZeroColour == [R |-> 0, G |-> 0, B |-> 0, A |-> 0]

(***************************************************************************)
(* The field codecs called on their own, as a record's Encode and Decode   *)
(* call them: the encoder next to the length the size function declares,   *)
(* the decoder on a reader that holds the declared number of bytes.        *)
(***************************************************************************)
SigLen == 64

NodeIDLen == 33

\* tlv.OptionalRecordT: absent, or present with a value
None(zero) == [some |-> FALSE, val |-> zero]

Some(v) == [some |-> TRUE, val |-> v]

\* the zero value of the struct
ZeroAnnouncement ==
    [Signature |-> [raw |-> Repeat(0, SigLen), schnorr |-> FALSE],
     Features |-> {},
     RGBColor |-> None(ZeroColour),
     BlockHeight |-> 0,
     Alias |-> None(Nil),
     NodeID |-> Repeat(0, NodeIDLen),
     IPV4Addresses |-> None(Nil),
     IPV6Addresses |-> None(Nil),
     TorV3Addresses |-> None(Nil),
     ExtraOpaqueData |-> Nil]

NAState(pc, sent, wire, msg, err, out, producers) ==
    [pc |-> pc, sent |-> sent, wire |-> wire, msg |-> msg, err |-> err, out |-> out,
     producers |-> producers]

NAStart == NAState("idle", <<>>, Nil, ZeroAnnouncement, FALSE, Nil, <<>>)

NoCall ==
    [op |-> "none", kind |-> "none", val |-> Nil, prev |-> Nil, bytes |-> Nil,
     len |-> 0, err |-> FALSE, used |-> 0]

Encoded(kind, v, size, enc) ==
    [op |-> "encode", kind |-> kind, val |-> v, prev |-> v, bytes |-> enc.out,
     len |-> size, err |-> enc.err, used |-> 0]

DecodedCall(kind, r, prev, l, d) ==
    [op |-> "decode", kind |-> kind, val |-> d.val, prev |-> prev, bytes |-> r,
     len |-> l, err |-> d.err, used |-> d.used]

IdleWM == [pc |-> "idle", buf |-> Nil, DisableFlag |-> FALSE, Extra |-> Nil, err |-> FALSE]

\* the blinded route data scenario: the value built, its encoding, and the
\* value decoded from the encoding
BRDState(pc, data, wire, decoded, err) ==
    [pc |-> pc, data |-> data, wire |-> wire, decoded |-> decoded, err |-> err]

IdleBRD == BRDState("idle", Nil, Nil, Nil, FALSE)

\* no call of the stream parser or the varint codec made yet
IdleSC == [op |-> "none"]

\* the ping manager before Start
IdlePM == [pc |-> "new"]

\* no call of Invoices.Validate made yet
IdleIV == [op |-> "none"]


FieldOthers == << wm, na, brd, sc, pm, iv >>

EncodeBoolean ==
    /\ \E b \in BOOLEAN : fc' = Encoded("bool", b, BooleanSize(b), booleanEncoder(b))
    /\ UNCHANGED FieldOthers

DecodeBoolean ==
    /\ \E prev \in BOOLEAN, l \in 0..MaxBoolLen :
         \E r \in [1..l -> BoolBytes] :
            fc' = DecodedCall("bool", r, prev, l, booleanDecoder(r, prev, l))
    /\ UNCHANGED FieldOthers

EncodeRGB ==
    /\ \E c \in ColourSamples : fc' = Encoded("rgb", c, 3, rgbEncoder(c))
    /\ UNCHANGED FieldOthers

DecodeRGB ==
    /\ \E l \in 0..4, seed \in {1, 5} :
         fc' = DecodedCall("rgb", PatternBytes(seed, l), ZeroColour, l,
                           rgbDecoder(PatternBytes(seed, l), ZeroColour, l))
    /\ UNCHANGED FieldOthers

EncodeIPV4Addrs ==
    /\ \E v \in SeqsUpTo(V4Samples, MaxAddrs) :
         fc' = Encoded("ipv4", v, IPV4EncodedSize(v), ipv4AddrsEncoder(v))
    /\ UNCHANGED FieldOthers

DecodeIPV4Addrs ==
    /\ \E prev \in SeqsUpTo(V4Samples, 1), l \in ListLengths(ipv4AddrEncodedSize),
          seed \in {1, 5} :
         fc' = DecodedCall("ipv4", PatternBytes(seed, l), prev, l,
                           ipv4AddrsDecoder(PatternBytes(seed, l), prev, l))
    /\ UNCHANGED FieldOthers

EncodeIPV6Addrs ==
    /\ \E v \in SeqsUpTo(V6Samples, MaxAddrs) :
         fc' = Encoded("ipv6", v, IPV6EncodedSize(v), ipv6AddrsEncoder(v))
    /\ UNCHANGED FieldOthers

DecodeIPV6Addrs ==
    /\ \E prev \in SeqsUpTo(V6Samples, 1), l \in ListLengths(ipv6AddrEncodedSize),
          seed \in {1, 5} :
         fc' = DecodedCall("ipv6", PatternBytes(seed, l), prev, l,
                           ipv6AddrsDecoder(PatternBytes(seed, l), prev, l))
    /\ UNCHANGED FieldOthers

EncodeTorV3Addrs ==
    /\ \E v \in SeqsUpTo(OnionSamples, MaxAddrs) :
         fc' = Encoded("torv3", v, TorV3EncodedSize(v), torV3AddrsEncoder(v))
    /\ UNCHANGED FieldOthers

DecodeTorV3Addrs ==
    /\ \E prev \in SeqsUpTo(OnionSamples, 1), l \in ListLengths(torV3AddrEncodedSize),
          seed \in {1, 5} :
         fc' = DecodedCall("torv3", PatternBytes(seed, l), prev, l,
                           torV3AddrsDecoder(PatternBytes(seed, l), prev, l))
    /\ UNCHANGED FieldOthers

EncodeAlias ==
    /\ \E v \in AliasSamples :
         fc' = Encoded("alias", v, AliasSize(v), encodeFlexibleAlias(v))
    /\ UNCHANGED FieldOthers

DecodeAlias ==
    /\ \E r \in AliasSamples, prev \in { Nil, << 120 >> } :
         fc' = DecodedCall("alias", r, prev, Len(r),
                           decodeFlexibleAlias(r, prev, Len(r)))
    /\ UNCHANGED FieldOthers

FieldInit ==
    /\ fc = NoCall
    /\ wm = IdleWM
    /\ na = NAStart
    /\ brd = IdleBRD
    /\ sc = IdleSC
    /\ pm = IdlePM
    /\ iv = IdleIV

FieldNext ==
    \/ EncodeBoolean
    \/ DecodeBoolean
    \/ EncodeRGB
    \/ DecodeRGB
    \/ EncodeIPV4Addrs
    \/ DecodeIPV4Addrs
    \/ EncodeIPV6Addrs
    \/ DecodeIPV6Addrs
    \/ EncodeTorV3Addrs
    \/ DecodeTorV3Addrs
    \/ EncodeAlias
    \/ DecodeAlias

SpecField == FieldInit /\ [][FieldNext]_vars

(***************************************************************************)
(* Properties of the field codecs, checked under SpecField.                *)
(***************************************************************************)
ListKinds == { "ipv4", "ipv6", "torv3" }

Stride(kind) ==
    CASE kind = "ipv4" -> ipv4AddrEncodedSize
      [] kind = "ipv6" -> ipv6AddrEncodedSize
      [] kind = "torv3" -> torV3AddrEncodedSize

\* C4: for every address list, of any element count, the list's encoder
\* succeeds and writes every entry: the number of value bytes written equals
\* the declared length EncodedSize() = count x stride.
C4_EncoderWritesDeclaredLength ==
    (fc.op = "encode" /\ fc.kind \in ListKinds) =>
        /\ ~fc.err
        /\ fc.len = Len(fc.val) * Stride(fc.kind)
        /\ Len(fc.bytes) = fc.len

\* C6: for both Boolean values b the encoder writes exactly size() bytes,
\* nothing for true and the byte 0x00 for false, and decoding that output
\* with the declared length yields b again, whatever the target held.
C6_BooleanRoundTrip ==
    (fc.op = "encode" /\ fc.kind = "bool") =>
        /\ ~fc.err
        /\ Len(fc.bytes) = fc.len
        /\ fc.bytes = IF fc.val THEN <<>> ELSE << 0 >>
        /\ \A prev \in BOOLEAN :
             LET d == booleanDecoder(fc.bytes, prev, fc.len)
             IN  ~d.err /\ d.val = fc.val /\ d.used = fc.len

C6_Witness ==
    fc.op = "encode" /\ fc.kind = "bool" /\ fc.val = FALSE /\ fc.bytes = << 0 >>

\* C19: the Boolean record decoder returns an error for every declared
\* length other than 0 or 1, and then, as for an invalid single byte, the
\* target keeps the value it had before the call.
C19_BooleanDecoderRejectsLongerLengths ==
    (fc.op = "decode" /\ fc.kind = "bool") =>
        /\ fc.len >= 2 => (fc.err /\ fc.val = fc.prev)
        /\ (fc.len = 1 /\ fc.bytes[1] \notin { 0, 1 }) => (fc.err /\ fc.val = fc.prev)

C19_Witness ==
    /\ fc.op = "decode" /\ fc.kind = "bool"
    /\ fc.len = 2 /\ fc.bytes = << 1, 1 >>
    /\ fc.prev = FALSE /\ fc.val = FALSE /\ fc.err

\* C7: decoding an address-list record whose declared length is not an exact
\* multiple of the family's stride returns an error and leaves the target
\* list unchanged; when the length is a multiple, the decoded list has
\* exactly length / stride entries.
C7_ListDecoderLength ==
    (fc.op = "decode" /\ fc.kind \in ListKinds) =>
        IF fc.len % Stride(fc.kind) # 0
        THEN fc.err /\ fc.val = fc.prev
        ELSE ~fc.err /\ Len(fc.val) = fc.len \div Stride(fc.kind)

C7_Witness ==
    /\ fc.op = "decode" /\ fc.kind = "ipv4"
    /\ fc.len = 2 * ipv4AddrEncodedSize + 1
    /\ Len(fc.prev) = 1
    /\ fc.err /\ fc.val = fc.prev

\* C8: an alias of 0 to 32 bytes of valid UTF-8 is accepted by the alias
\* encoder and by the alias decoder; an alias of more than 32 bytes is
\* rejected with an error by both.
C8_AliasLengthLimit ==
    /\ (fc.op = "encode" /\ fc.kind = "alias") =>
          /\ Len(fc.val) > 32 => fc.err
          /\ (Len(fc.val) <= 32 /\ ValidUTF8(fc.val)) => (~fc.err /\ fc.bytes = fc.val)
    /\ (fc.op = "decode" /\ fc.kind = "alias") =>
          /\ fc.len > 32 => (fc.err /\ fc.val = fc.prev)
          /\ (fc.len <= 32 /\ ValidUTF8(fc.bytes)) => (~fc.err /\ fc.val = fc.bytes)

C8_Witness ==
    /\ fc.op = "decode" /\ fc.kind = "alias"
    /\ fc.len = 33 /\ ValidUTF8(fc.bytes)
    /\ fc.err

\* C9: decoding an alias record whose value bytes are not valid UTF-8
\* returns an error, as encoding such an alias does.
C9_DecodeRejectsNonUTF8 ==
    (fc.kind = "alias" /\ fc.op \in { "encode", "decode" }
       /\ ~ValidUTF8(IF fc.op = "encode" THEN fc.val ELSE fc.bytes)) => fc.err

(***************************************************************************)
(* Extraction (specification 4.4) and the encoding of a message's records  *)
(* into its ExtraOpaqueData.                                               *)
(***************************************************************************)
\* big-endian fixed-width integers of the tlv package
EUint32(n) == << n \div 16777216, (n \div 65536) % 256, (n \div 256) % 256, n % 256 >>

DUint32(r, v, l) ==
    IF l = 4 /\ Len(r) >= 4
    THEN Decoded(FALSE, r[1] * 16777216 + r[2] * 65536 + r[3] * 256 + r[4], 4)
    ELSE Decoded(TRUE, v, 0)

\* a fixed-size byte array of n bytes
DBytesN(r, v, l, n) ==
    IF l = n /\ Len(r) >= n THEN Decoded(FALSE, Take(r, n), n)
    ELSE Decoded(TRUE, v, 0)

\* lnwire.RawFeatureVector: the set of bits that are set; on the wire the
\* least number of bytes that holds the highest bit, bit 0 the lowest bit of
\* the last byte.
FeatureBytesLen(fv) ==
    IF fv = {} THEN 0
    ELSE ((CHOOSE m \in fv : \A x \in fv : x <= m) \div 8) + 1

EncodeFeatures(fv) ==
    LET n == FeatureBytesLen(fv)
        BitVal(i, k) == IF ((n - i) * 8 + k) \in fv THEN Pow2(k) ELSE 0
    IN  [i \in 1..n |-> BitVal(i, 0) + BitVal(i, 1) + BitVal(i, 2) + BitVal(i, 3)
                        + BitVal(i, 4) + BitVal(i, 5) + BitVal(i, 6) + BitVal(i, 7)]

DecodeFeatures(r, v, l) ==
    IF Len(r) < l THEN Decoded(TRUE, v, 0)
    ELSE Decoded(FALSE,
                 { (l - p[1]) * 8 + p[2] :
                     p \in { q \in (1..l) \X (0..7) : (r[q[1]] \div Pow2(q[2])) % 2 = 1 } },
                 l)

\* big-endian 16-bit integer of the tlv package
EUint16(n) == << (n \div 256) % 256, n % 256 >>

(***************************************************************************)
(* Truncated integers (the "leading zeros trimmed" values of the blinded   *)
(* data records).  An unsigned integer of w bytes is its w big-endian      *)
(* bytes, so that MaxUint32 and MaxUint64 are values like any other.       *)
(***************************************************************************)
\* An encoder that writes one zero byte for the value zero.
RECURSIVE ETUintKeepsOneByte(_)
ETUintKeepsOneByte(v) ==
    IF Len(v) <= 1 THEN v
    ELSE IF v[1] = 0 THEN ETUintKeepsOneByte(Tail(v))
    ELSE v

\* the value without its leading zero bytes
RECURSIVE ETUint(_)
ETUint(v) ==
    IF v = <<>> THEN <<>>
    ELSE IF v[1] = 0 THEN ETUint(Tail(v))
    ELSE v

\* at most w bytes, the first of them not zero
DTUint(b, w) ==
    IF Len(b) > w THEN Err(Repeat(0, w))
    ELSE IF Len(b) > 0 /\ b[1] = 0 THEN Err(Repeat(0, w))
    ELSE Ok(Repeat(0, w - Len(b)) \o b)

(***************************************************************************)
(* The records of the blinded route data (specification 4.6 and 6, with    *)
(* the layout the test vectors of src/record/blinded_data_test.go show).   *)
(***************************************************************************)
\* lnwire.ShortChannelID: block height and transaction index of three bytes
\* each, output index of two
EncodeSCID(c) ==
    Drop(EUint32(c.BlockHeight), 1) \o Drop(EUint32(c.TxIndex), 1) \o EUint16(c.TxPosition)

DecodeSCID(r, v, l) ==
    IF l # 8 \/ Len(r) < 8 THEN Decoded(TRUE, v, 0)
    ELSE Decoded(FALSE,
                 [BlockHeight |-> r[1] * 65536 + r[2] * 256 + r[3],
                  TxIndex |-> r[4] * 65536 + r[5] * 256 + r[6],
                  TxPosition |-> r[7] * 256 + r[8]],
                 8)

\* payment relay info: cltv expiry delta (2 bytes), fee rate (4 bytes), base
\* fee (truncated, up to 4 bytes)
EncodeRelayInfo(i) == EUint16(i.CltvExpiryDelta) \o EUint32(i.FeeRate) \o ETUint(i.BaseFee)

DecodeRelayInfo(r, v, l) ==
    IF l < 6 \/ l > 10 \/ Len(r) < l THEN Decoded(TRUE, v, 0)
    ELSE LET fee == DTUint(SubSeq(r, 7, l), 4)
         IN  IF fee.err THEN Decoded(TRUE, v, 6)
             ELSE Decoded(FALSE,
                          [CltvExpiryDelta |-> Uint16(SubSeq(r, 1, 2)),
                           FeeRate |-> DUint32(SubSeq(r, 3, 6), 0, 4).val,
                           BaseFee |-> fee.out],
                          l)

\* payment constraints: max cltv expiry (4 bytes), htlc minimum (truncated,
\* up to 8 bytes)
EncodeConstraints(c) == EUint32(c.MaxCltvExpiry) \o ETUint(c.HtlcMinimumMsat)

DecodeConstraints(r, v, l) ==
    IF l < 4 \/ l > 12 \/ Len(r) < l THEN Decoded(TRUE, v, 0)
    ELSE LET min == DTUint(SubSeq(r, 5, l), 8)
         IN  IF min.err THEN Decoded(TRUE, v, 4)
             ELSE Decoded(FALSE,
                          [MaxCltvExpiry |-> DUint32(SubSeq(r, 1, 4), 0, 4).val,
                           HtlcMinimumMsat |-> min.out],
                          l)

\* The decoder of a known record, by the kind of its field.
DecodeByKind(kind, r, v, l) ==
    CASE kind = "bool" -> booleanDecoder(r, v, l)
      [] kind = "rgb" -> rgbDecoder(r, v, l)
      [] kind = "ipv4" -> ipv4AddrsDecoder(r, v, l)
      [] kind = "ipv6" -> ipv6AddrsDecoder(r, v, l)
      [] kind = "torv3" -> torV3AddrsDecoder(r, v, l)
      [] kind = "alias" -> decodeFlexibleAlias(r, v, l)
      [] kind = "features" -> DecodeFeatures(r, v, l)
      [] kind = "u32" -> DUint32(r, v, l)
      [] kind = "nodeid" -> DBytesN(r, v, l, 33)
      [] kind = "pubkey" -> DBytesN(r, v, l, 33)
      [] kind = "scid" -> DecodeSCID(r, v, l)
      [] kind = "relayinfo" -> DecodeRelayInfo(r, v, l)
      [] kind = "constraints" -> DecodeConstraints(r, v, l)

\* Record.decode: the decoder on the record's value bytes; it must consume
\* exactly the declared length.
RecordDecoded(d, l) == [err |-> d.err \/ d.used # l, val |-> d.val]

DecodeRecord(kind, val, v) == RecordDecoded(DecodeByKind(kind, val, v, Len(val)), Len(val))

\* extract(raw_stream, known producers): schema gives the kind of each known
\* type, targets the value each known producer decodes into.  Known records
\* are decoded in stream order and recorded in the type map; the others stay
\* behind, in order.  The first error aborts.
RECURSIVE ExtractLoop(_, _, _, _, _)
RECURSIVE ExtractKnown(_, _, _, _, _, _)
ExtractKnown(recs, schema, targets, found, rest, d) ==
    IF d.err
    THEN [err |-> TRUE, targets |-> [targets EXCEPT ![Head(recs).type] = d.val],
          typeMap |-> found, rest |-> rest \o Tail(recs)]
    ELSE ExtractLoop(Tail(recs), schema, [targets EXCEPT ![Head(recs).type] = d.val],
                     found \cup { Head(recs).type }, rest)

ExtractLoop(recs, schema, targets, found, rest) ==
    IF recs = <<>>
    THEN [err |-> FALSE, targets |-> targets, typeMap |-> found, rest |-> rest]
    ELSE IF Head(recs).type \in DOMAIN schema
         THEN ExtractKnown(recs, schema, targets, found, rest,
                           DecodeRecord(schema[Head(recs).type], Head(recs).val,
                                        targets[Head(recs).type]))
         ELSE ExtractLoop(Tail(recs), schema, targets, found, Append(rest, Head(recs)))

\* ExtraOpaqueData.ExtractRecords: parse, then extract; the opaque data is
\* left holding the bytes of the records that were not recognised.
Extracted(e) ==
    [err |-> e.err, targets |-> e.targets, typeMap |-> e.typeMap, rest |-> SerializeRaw(e.rest)]

ExtractParsed(p, tlvRecords, schema, targets) ==
    IF ~p.ok
    THEN [err |-> TRUE, targets |-> targets, typeMap |-> {}, rest |-> tlvRecords]
    ELSE Extracted(ExtractLoop(p.recs, schema, targets, {}, <<>>))

ExtractRecords(tlvRecords, schema, targets) ==
    ExtractParsed(ParseStream(tlvRecords), tlvRecords, schema, targets)

\* EncodeMessageExtraData(&extraData, producers...): the stream of the given
\* records is stored in extraData; on an error extraData is left as it was.
Packed(extraData, e) == IF e.err THEN Err(extraData) ELSE Ok(e.out)

EncodeMessageExtraData(extraData, producers) == Packed(extraData, StreamEncode(producers))

(***************************************************************************)
(* The wireMsg of TestBooleanRecord (src/unnamed/part_003): a message with *)
(* one Boolean record of type 2.  wm.buf is the test's buffer, DisableFlag *)
(* and Extra the fields of the message decoded from it.                    *)
(***************************************************************************)
WMOthers == << fc, na, brd, sc, pm, iv >>

DisableFlagType == 2

\* bytes a peer may send in place of the test's encodings
WireSamples ==
    { << DisableFlagType, 1, b >> : b \in Byte }
      \cup { << DisableFlagType, 2, 0, 0 >>, << 3, 1, 7 >>, << DisableFlagType, 1, 1, 3, 1, 7 >>,
             << DisableFlagType >>, << DisableFlagType, 1 >>, << 3, 0, DisableFlagType, 0 >> }

WMEncoded(e) ==
    /\ wm.pc = "idle"
    /\ ~e.err
    /\ wm' = [pc |-> "encoded", buf |-> e.out, DisableFlag |-> FALSE, Extra |-> Nil,
              err |-> FALSE]
    /\ UNCHANGED WMOthers

encodedWireMsgExplicitFalse ==
    WMEncoded(EncodeMessageExtraData(Nil,
        << Producer(DisableFlagType, BooleanSize(FALSE), booleanEncoder(FALSE)) >>))

encodedWireMsgExplicitTrue ==
    WMEncoded(EncodeMessageExtraData(Nil, << Producer(DisableFlagType, 1, EBool(TRUE)) >>))

encodedWireMsgZeroLenTrue ==
    WMEncoded(EncodeMessageExtraData(Nil,
        << Producer(DisableFlagType, BooleanSize(TRUE), booleanEncoder(TRUE)) >>))

encodedWireMsgOmitBool == WMEncoded(EncodeMessageExtraData(Nil, <<>>))

ReceiveWire == \E b \in WireSamples : WMEncoded(Ok(b))

\* decodeWireMsg on a fresh wireMsg: the flag is taken from the local record
\* only when its type is in the type map.
WMDecoded(ex) ==
    [wm EXCEPT !.pc = "decoded",
               !.err = ex.err,
               !.DisableFlag = IF ~ex.err /\ DisableFlagType \in ex.typeMap
                               THEN ex.targets[DisableFlagType]
                               ELSE FALSE]

decodeWireMsg ==
    /\ wm.pc = "encoded"
    /\ wm' = WMDecoded(ExtractRecords(wm.buf, (DisableFlagType :> "bool"),
                                      (DisableFlagType :> FALSE)))
    /\ UNCHANGED WMOthers

\* the next case of the test starts from an empty buffer and message
NextSubtest ==
    /\ wm.pc = "decoded"
    /\ wm' = IdleWM
    /\ UNCHANGED WMOthers

WireMsgInit ==
    /\ wm = IdleWM
    /\ fc = NoCall
    /\ na = NAStart
    /\ brd = IdleBRD
    /\ sc = IdleSC
    /\ pm = IdlePM
    /\ iv = IdleIV

WireMsgNext ==
    \/ encodedWireMsgExplicitFalse
    \/ encodedWireMsgExplicitTrue
    \/ encodedWireMsgZeroLenTrue
    \/ encodedWireMsgOmitBool
    \/ ReceiveWire
    \/ decodeWireMsg
    \/ NextSubtest

SpecWireMsg == WireMsgInit /\ [][WireMsgNext]_vars

\* C5: decoding a message's Boolean field yields false when the record is
\* absent from the stream, true when it is present with zero length, false
\* when present with the single byte 0x00, true with the single byte 0x01,
\* and a decode error with any other single byte.
C5_BooleanFieldDecoding ==
    wm.pc = "decoded" =>
        /\ wm.buf \in { <<>>, << 3, 1, 7 >> } => (~wm.err /\ wm.DisableFlag = FALSE)
        /\ wm.buf = << DisableFlagType, 0 >> => (~wm.err /\ wm.DisableFlag = TRUE)
        /\ wm.buf = << DisableFlagType, 1, 0 >> => (~wm.err /\ wm.DisableFlag = FALSE)
        /\ wm.buf = << DisableFlagType, 1, 1 >> => (~wm.err /\ wm.DisableFlag = TRUE)
        /\ \A b \in 2..255 : wm.buf = << DisableFlagType, 1, b >> => wm.err

C5_Witness ==
    wm.pc = "decoded" /\ wm.buf = << DisableFlagType, 1, 2 >> /\ wm.err

(***************************************************************************)
(* NodeAnnouncement2 (src/unnamed/part_003).                               *)
(***************************************************************************)
NAOthers == << fc, wm, brd, sc, pm, iv >>

\* the TLV types of the fields
FeaturesType == 0
RGBColorType == 1
BlockHeightType == 2
IPV4AddressesType == 3
AliasType == 4
IPV6AddressesType == 5
NodeIDType == 6
TorV3AddressesType == 7

\* the records handed to ExtractRecords, by type
NASchema ==
    (FeaturesType :> "features") @@ (RGBColorType :> "rgb")
      @@ (BlockHeightType :> "u32") @@ (IPV4AddressesType :> "ipv4")
      @@ (AliasType :> "alias") @@ (IPV6AddressesType :> "ipv6")
      @@ (NodeIDType :> "nodeid") @@ (TorV3AddressesType :> "torv3")

\* A presence test that looks at the decoded value instead of the type map.
PresentIfNotDefault(typeMap, t, v, zero) == v # zero

\* if _, ok := typeMap[n.X.TlvType()]; ok
Present(typeMap, t, v, zero) == t \in typeMap

\* DecodeTLVRecords: the required fields are decoded in place, the optional
\* ones into local records that are stored when their type is in the type
\* map; what extraction leaves is kept when it is not empty.
\* DecodeTLVRecords without its last step: the records left over are not
\* stored on the message.
RecordsExtractedDropsTail(n, ex) ==
    LET Opt(t, old, zero) ==
            IF Present(ex.typeMap, t, ex.targets[t], zero) THEN Some(ex.targets[t]) ELSE old
        n1 == [n EXCEPT !.Features = ex.targets[FeaturesType],
                        !.BlockHeight = ex.targets[BlockHeightType],
                        !.NodeID = ex.targets[NodeIDType]]
    IN  IF ex.err THEN [err |-> TRUE, n |-> n1]
        ELSE [err |-> FALSE,
              n |-> [n1 EXCEPT
                       !.RGBColor = Opt(RGBColorType, @, ZeroColour),
                       !.Alias = Opt(AliasType, @, Nil),
                       !.IPV4Addresses = Opt(IPV4AddressesType, @, Nil),
                       !.IPV6Addresses = Opt(IPV6AddressesType, @, Nil),
                       !.TorV3Addresses = Opt(TorV3AddressesType, @, Nil)]]

\* the message once ExtractRecords has returned ex
RecordsExtracted(n, ex) ==
    LET Opt(t, old, zero) ==
            IF Present(ex.typeMap, t, ex.targets[t], zero) THEN Some(ex.targets[t]) ELSE old
        n1 == [n EXCEPT !.Features = ex.targets[FeaturesType],
                        !.BlockHeight = ex.targets[BlockHeightType],
                        !.NodeID = ex.targets[NodeIDType]]
    IN  IF ex.err THEN [err |-> TRUE, n |-> n1]
        ELSE [err |-> FALSE,
              n |-> [n1 EXCEPT
                       !.RGBColor = Opt(RGBColorType, @, ZeroColour),
                       !.Alias = Opt(AliasType, @, Nil),
                       !.IPV4Addresses = Opt(IPV4AddressesType, @, Nil),
                       !.IPV6Addresses = Opt(IPV6AddressesType, @, Nil),
                       !.TorV3Addresses = Opt(TorV3AddressesType, @, Nil),
                       !.ExtraOpaqueData = IF Len(ex.rest) # 0 THEN ex.rest ELSE @]]

DecodeTLVRecords(n, tlvRecords) ==
    RecordsExtracted(n,
        ExtractRecords(tlvRecords, NASchema,
            (FeaturesType :> n.Features) @@ (RGBColorType :> ZeroColour)
              @@ (BlockHeightType :> n.BlockHeight) @@ (IPV4AddressesType :> Nil)
              @@ (AliasType :> Nil) @@ (IPV6AddressesType :> Nil)
              @@ (NodeIDType :> n.NodeID) @@ (TorV3AddressesType :> Nil)))

\* Decode: the signature, marked as a Schnorr signature, then the records.
Decode(n, r) ==
    IF Len(r) < SigLen THEN [err |-> TRUE, n |-> n]
    ELSE DecodeTLVRecords(
             [n EXCEPT !.Signature = [raw |-> Take(r, SigLen), schnorr |-> TRUE]],
             Drop(r, SigLen))

\* the record producer of an optional field, when it is present
WhenSome(opt, t, size, enc) == IF opt.some THEN << Producer(t, size, enc) >> ELSE <<>>

\* The record producers in the order Encode appends them.
RecordProducers(n) ==
    << Producer(FeaturesType, FeatureBytesLen(n.Features), Ok(EncodeFeatures(n.Features))) >>
      \o WhenSome(n.RGBColor, RGBColorType, 3, rgbEncoder(n.RGBColor.val))
      \o << Producer(BlockHeightType, 4, Ok(EUint32(n.BlockHeight))) >>
      \o WhenSome(n.IPV4Addresses, IPV4AddressesType,
                  IPV4EncodedSize(n.IPV4Addresses.val), ipv4AddrsEncoder(n.IPV4Addresses.val))
      \o WhenSome(n.Alias, AliasType, AliasSize(n.Alias.val), encodeFlexibleAlias(n.Alias.val))
      \o << Producer(NodeIDType, NodeIDLen, Ok(n.NodeID)) >>
      \o WhenSome(n.IPV6Addresses, IPV6AddressesType,
                  IPV6EncodedSize(n.IPV6Addresses.val), ipv6AddrsEncoder(n.IPV6Addresses.val))
      \o WhenSome(n.TorV3Addresses, TorV3AddressesType,
                  TorV3EncodedSize(n.TorV3Addresses.val), torV3AddrsEncoder(n.TorV3Addresses.val))

\* Encode: the signature is written first; the records are encoded into
\* n.ExtraOpaqueData, which is then written.
ExtraDataEncoded(n, e) ==
    IF e.err THEN [err |-> TRUE, n |-> n, w |-> n.Signature.raw]
    ELSE [err |-> FALSE, n |-> [n EXCEPT !.ExtraOpaqueData = e.out],
          w |-> n.Signature.raw \o e.out]

Encode(n) ==
    ExtraDataEncoded(n, EncodeMessageExtraData(n.ExtraOpaqueData, RecordProducers(n)))

(***************************************************************************)
(* The announcements a peer sends: a signature followed by a stream of     *)
(* records, each list written in full (every entry, stride bytes each).    *)
(***************************************************************************)
Raw(t, val) == [type |-> t, val |-> val]

V4Addr(i) == [IP |-> << 10, 0, 0, i >>, Port |-> 9735 + i]

V6Addr(i) == [IP |-> << 32, 1, 13, 184 >> \o Repeat(0, 11) \o << i >>, Port |-> 9735 + i]

OnionHost(i) == PatternBytes(2 * i + 1, V3DecodedLen)

IPBytes(list) == Flatten([i \in 1..Len(list) |-> list[i].IP \o PutUint16(list[i].Port)])

OnionBytes(k) == Flatten([i \in 1..k |-> OnionHost(i) \o PutUint16(9735 + i)])

SigSample == PatternBytes(11, SigLen)

RawFeatures == Raw(FeaturesType, EncodeFeatures({ 0, 9 }))

RawHeight == Raw(BlockHeightType, EUint32(800000))

RawNodeID == Raw(NodeIDType, << 2 >> \o PatternBytes(13, NodeIDLen - 1))

\* zero or one record of an optional field
RGBChoices == { <<>>, << Raw(RGBColorType, << 1, 2, 3 >>) >>, << Raw(RGBColorType, << 0, 0, 0 >>) >> }

IPV4Choices ==
    { <<>> } \cup { << Raw(IPV4AddressesType, IPBytes([i \in 1..k |-> V4Addr(i)])) >> :
                     k \in 0..MaxAddrs }

AliasChoices ==
    { <<>>, << Raw(AliasType, <<>>) >>, << Raw(AliasType, << 97, 98 >>) >>,
      << Raw(AliasType, << 255 >>) >> }

IPV6Choices ==
    { <<>> } \cup { << Raw(IPV6AddressesType, IPBytes([i \in 1..k |-> V6Addr(i)])) >> :
                     k \in 0..MaxAddrs }

TorV3Choices ==
    { <<>> } \cup { << Raw(TorV3AddressesType, OnionBytes(k)) >> : k \in 0..MaxAddrs }

\* records of types the decoder does not know
UnknownChoices == { <<>>, << Raw(9, << 7 >>) >>, << Raw(9, << 7 >>), Raw(11, <<>>) >> }

\* well-formed announcements: every required record, any optional ones
WellFormed ==
    { << RawFeatures >> \o rgb \o << RawHeight >> \o v4 \o al \o v6 \o << RawNodeID >>
        \o tor \o unk :
        rgb \in RGBChoices, v4 \in IPV4Choices, al \in AliasChoices, v6 \in IPV6Choices,
        tor \in TorV3Choices, unk \in UnknownChoices }

\* announcements that lack a required record, break the order of the types,
\* or carry a value of the wrong length
Malformed ==
    { << RawHeight, RawNodeID >>,
      << RawFeatures, RawNodeID >>,
      << RawFeatures, RawHeight >>,
      << Raw(FeaturesType, <<>>), RawHeight, RawNodeID >>,
      << RawFeatures, Raw(BlockHeightType, << 0, 1, 2 >>), RawNodeID >>,
      << RawFeatures, RawHeight, Raw(NodeIDType, << 2, 3 >>) >>,
      << RawFeatures, Raw(RGBColorType, << 1, 2 >>), RawHeight, RawNodeID >>,
      << RawFeatures, Raw(RGBColorType, << 1, 2, 3, 4 >>), RawHeight, RawNodeID >>,
      << RawFeatures, RawHeight, Raw(IPV4AddressesType, PatternBytes(1, 7)), RawNodeID >>,
      << RawFeatures, RawHeight, Raw(AliasType, Repeat(97, MaxAliasLen + 1)), RawNodeID >>,
      << RawFeatures, RawHeight, RawNodeID, Raw(TorV3AddressesType, PatternBytes(1, 38)) >>,
      << RawHeight, RawFeatures, RawNodeID >>,
      << RawFeatures, RawFeatures, RawHeight, RawNodeID >>,
      << RawFeatures, RawHeight, RawNodeID, Raw(9, << 7 >>), Raw(8, << 1 >>) >> }

\* bytes cut short: a signature of 10 bytes, a length that exceeds the rest
CutShort ==
    { Take(SigSample, 10),
      SigSample \o SerializeRaw(<< RawFeatures >>) \o << BlockHeightType, 4, 0, 12 >> }

(***************************************************************************)
(* The life of one announcement: bytes arrive, a fresh message decodes     *)
(* them, and the decoded message is encoded again.  sent holds the records *)
(* the bytes were made of, producers the types Encode handed to the stream *)
(* encoder.                                                                *)
(***************************************************************************)
Received(sent, wire) ==
    /\ na.pc = "idle"
    /\ na' = NAState("received", sent, wire, ZeroAnnouncement, FALSE, Nil, <<>>)
    /\ UNCHANGED NAOthers

ReceiveAnnouncement ==
    \E recs \in WellFormed : Received(recs, SigSample \o SerializeRaw(recs))

ReceiveMalformed ==
    \/ \E recs \in Malformed : Received(recs, SigSample \o SerializeRaw(recs))
    \/ \E b \in CutShort : Received(<<>>, b)

NADecoded(d) ==
    [na EXCEPT !.pc = IF d.err THEN "failed" ELSE "decoded", !.msg = d.n, !.err = d.err]

DecodeAnnouncement ==
    /\ na.pc = "received"
    /\ na' = NADecoded(Decode(na.msg, na.wire))
    /\ UNCHANGED NAOthers

ProducerTypes(ps) == [i \in 1..Len(ps) |-> ps[i].type]

NAEncoded(e, ps) ==
    [na EXCEPT !.pc = "encoded", !.msg = e.n, !.err = e.err, !.out = e.w,
               !.producers = ProducerTypes(ps)]

EncodeAnnouncement ==
    /\ na.pc = "decoded"
    /\ na' = NAEncoded(Encode(na.msg), RecordProducers(na.msg))
    /\ UNCHANGED NAOthers

NAInit ==
    /\ na = NAStart
    /\ fc = NoCall
    /\ wm = IdleWM
    /\ brd = IdleBRD
    /\ sc = IdleSC
    /\ pm = IdlePM
    /\ iv = IdleIV

NANext ==
    \/ ReceiveAnnouncement
    \/ ReceiveMalformed
    \/ DecodeAnnouncement
    \/ EncodeAnnouncement

SpecNodeAnn == NAInit /\ [][NANext]_vars

(***************************************************************************)
(* Properties of NodeAnnouncement2, checked under SpecNodeAnn.             *)
(***************************************************************************)
KnownTypes == DOMAIN NASchema

SentTypes == { na.sent[i].type : i \in 1..Len(na.sent) }

StrictlyAscending(ts) == \A i \in 1..(Len(ts) - 1) : ts[i] < ts[i + 1]

\* C2: for a NodeAnnouncement2 decoded from a valid stream that contains a
\* record of a type unknown to the decoder, Encode on the decoded message
\* succeeds and reproduces the original bytes, the unknown record intact and
\* in its original position.
C2_ReencodeReproducesStream ==
    (na.pc = "encoded" /\ SentTypes \ KnownTypes # {}) =>
        (~na.err /\ na.out = na.wire)

\* C3: for every combination of present and absent optional fields, Encode
\* hands its record producers to the stream encoder in strictly ascending
\* type order, no type repeated.
C3_ProducersAscending ==
    na.pc = "encoded" => StrictlyAscending(na.producers)

\* C10: after DecodeTLVRecords succeeds, each optional field is present if
\* and only if a record of its type occurred in the decoded stream, whether
\* or not the decoded value equals the type's default.
C10_PresenceFromTypeMap ==
    na.pc = "decoded" =>
        /\ na.msg.RGBColor.some <=> RGBColorType \in SentTypes
        /\ na.msg.Alias.some <=> AliasType \in SentTypes
        /\ na.msg.IPV4Addresses.some <=> IPV4AddressesType \in SentTypes
        /\ na.msg.IPV6Addresses.some <=> IPV6AddressesType \in SentTypes
        /\ na.msg.TorV3Addresses.some <=> TorV3AddressesType \in SentTypes

C10_Witness ==
    /\ na.pc = "decoded"
    /\ na.msg.Alias = Some(<<>>)
    /\ na.msg.IPV4Addresses = Some(<<>>)
    /\ na.msg.RGBColor = Some(ZeroColour)
    /\ ~na.msg.IPV6Addresses.some
    /\ Len(na.msg.TorV3Addresses.val) = 2

\* the records of the received stream whose types the decoder does not know
UnknownSent == SelectSeq(na.sent, LAMBDA r : r.type \notin KnownTypes)

C12_FailedDecodeLeavesMessage ==
    na.pc = "failed" => na.msg = ZeroAnnouncement

\* the required records of a NodeAnnouncement2
RequiredTypes == { FeaturesType, BlockHeightType, NodeIDType }

\* C13: decoding a stream from which a required record (Features, BlockHeight
\* or NodeID) is absent returns an error.
C13_MissingRequiredRecordFails ==
    (na.pc \in { "decoded", "failed" } /\ ~(RequiredTypes \subseteq SentTypes)) => na.err

(***************************************************************************)
(* Blinded route data: NewBlindedRouteData, EncodeBlindedRouteData and     *)
(* DecodeBlindedRouteData as TestBlindedDataEncoding uses them             *)
(* (src/record/blinded_data_test.go); the functions themselves are         *)
(* modelled from the specification and the test vectors.  The test's nil   *)
(* and empty feature vectors both come back as they went in, and the       *)
(* vectors show an empty vector as a present record of length 0: a nil     *)
(* vector is an absent record.                                             *)
(***************************************************************************)
BRDOthers == << fc, wm, na, sc, pm, iv >>

ShortChannelIDType == 2
NextBlindingOverrideType == 8
RelayInfoType == 10
ConstraintsType == 12
BlindedFeaturesType == 14

\* the unsigned integers of w bytes tried: zero, and for every number of
\* leading zero bytes a low, a middle and a high first byte, followed by
\* bytes that are all zero or all 0xFF
UintSamples(w) ==
    { Repeat(0, w) } \cup
    { Repeat(0, w - k) \o << h >> \o Repeat(t, k - 1) :
        k \in 1..w, h \in { 1, 127, 255 }, t \in { 0, 255 } }

\* pubkeyStr of the test
PubKeySample ==
    << 2, 238, 199, 36, 93, 107, 125, 44, 203, 48, 56, 11, 251, 226, 163, 100, 140,
       215, 169, 66, 101, 63, 90, 163, 64, 237, 206, 161, 242, 131, 104, 102, 25 >>

\* nil, lnwire.EmptyFeatureVector(), and a vector with one bit set
FeatureChoices == { None({}), Some({}), Some({ 31 }) }

ZeroSCID == [BlockHeight |-> 0, TxIndex |-> 0, TxPosition |-> 0]

ZeroRelayInfo == [CltvExpiryDelta |-> 0, FeeRate |-> 0, BaseFee |-> Repeat(0, 4)]

ZeroConstraints == [MaxCltvExpiry |-> 0, HtlcMinimumMsat |-> Repeat(0, 8)]

NewBlindedRouteData(chanID, blindingOverride, relayInfo, constraints, features) ==
    [ShortChannelID |-> chanID,
     NextBlindingOverride |-> blindingOverride,
     RelayInfo |-> relayInfo,
     Constraints |-> constraints,
     Features |-> features]

\* the records of the present fields, in type order, as a stream
EncodeBlindedRouteData(d) ==
    StreamEncode(
        << Producer(ShortChannelIDType, 8, Ok(EncodeSCID(d.ShortChannelID))) >>
          \o WhenSome(d.NextBlindingOverride, NextBlindingOverrideType, 33,
                      Ok(d.NextBlindingOverride.val))
          \o << Producer(RelayInfoType, Len(EncodeRelayInfo(d.RelayInfo)),
                         Ok(EncodeRelayInfo(d.RelayInfo))) >>
          \o WhenSome(d.Constraints, ConstraintsType,
                      Len(EncodeConstraints(d.Constraints.val)),
                      Ok(EncodeConstraints(d.Constraints.val)))
          \o WhenSome(d.Features, BlindedFeaturesType, FeatureBytesLen(d.Features.val),
                      Ok(EncodeFeatures(d.Features.val))))

BRDSchema ==
    (ShortChannelIDType :> "scid") @@ (NextBlindingOverrideType :> "pubkey")
      @@ (RelayInfoType :> "relayinfo") @@ (ConstraintsType :> "constraints")
      @@ (BlindedFeaturesType :> "features")

\* parse, extract the known records, and take an optional field as present
\* when its type is in the type map; records of other types are not kept
BlindedExtracted(ex) ==
    LET Opt(t, zero) == IF t \in ex.typeMap THEN Some(ex.targets[t]) ELSE None(zero)
    IN  IF ex.err THEN Err(Nil)
        ELSE Ok(NewBlindedRouteData(ex.targets[ShortChannelIDType],
                                    Opt(NextBlindingOverrideType, Nil),
                                    ex.targets[RelayInfoType],
                                    Opt(ConstraintsType, ZeroConstraints),
                                    Opt(BlindedFeaturesType, {})))

DecodeBlindedRouteData(r) ==
    BlindedExtracted(
        ExtractRecords(r, BRDSchema,
            (ShortChannelIDType :> ZeroSCID) @@ (NextBlindingOverrideType :> Nil)
              @@ (RelayInfoType :> ZeroRelayInfo) @@ (ConstraintsType :> ZeroConstraints)
              @@ (BlindedFeaturesType :> {})))

\* the body of a test case: the value is built from the case's base fee,
\* htlc minimum, constraints flag and feature vector
BuildBlindedData ==
    /\ brd.pc = "idle"
    /\ \E baseFee \in UintSamples(4), htlcMin \in UintSamples(8),
          withConstraints \in BOOLEAN, withOverride \in BOOLEAN,
          features \in FeatureChoices :
         \* a case without constraints does not use its htlc minimum
         /\ withConstraints \/ htlcMin = Repeat(0, 8)
         /\ brd' = BRDState("built",
                NewBlindedRouteData(
                    [BlockHeight |-> 0, TxIndex |-> 0, TxPosition |-> 1],
                    IF withOverride THEN Some(PubKeySample) ELSE None(Nil),
                    [CltvExpiryDelta |-> 3, FeeRate |-> 2, BaseFee |-> baseFee],
                    IF withConstraints
                    THEN Some([MaxCltvExpiry |-> 4, HtlcMinimumMsat |-> htlcMin])
                    ELSE None(ZeroConstraints),
                    features),
                Nil, Nil, FALSE)
    /\ UNCHANGED BRDOthers

BRDEncoded(e) ==
    [brd EXCEPT !.pc = IF e.err THEN "failed" ELSE "encoded", !.wire = e.out, !.err = e.err]

EncodeBlindedData ==
    /\ brd.pc = "built"
    /\ brd' = BRDEncoded(EncodeBlindedRouteData(brd.data))
    /\ UNCHANGED BRDOthers

BRDDecoded(d) == [brd EXCEPT !.pc = "decoded", !.decoded = d.out, !.err = d.err]

DecodeBlindedData ==
    /\ brd.pc = "encoded"
    /\ brd' = BRDDecoded(DecodeBlindedRouteData(brd.wire))
    /\ UNCHANGED BRDOthers

BlindedInit ==
    /\ brd = IdleBRD
    /\ fc = NoCall
    /\ wm = IdleWM
    /\ na = NAStart
    /\ sc = IdleSC
    /\ pm = IdlePM
    /\ iv = IdleIV

BlindedNext ==
    \/ BuildBlindedData
    \/ EncodeBlindedData
    \/ DecodeBlindedData

SpecBlinded == BlindedInit /\ [][BlindedNext]_vars

\* C1: for every blinded-route-data value (any base fee, any htlc minimum,
\* constraints present or absent, feature vector nil, empty or populated)
\* decoding the encoding succeeds and returns a value equal to it.
C1_BlindedDataRoundTrip ==
    /\ brd.pc # "failed"
    /\ brd.pc = "decoded" => (~brd.err /\ brd.decoded = brd.data)

\* MaxUint32 as base fee and MaxUint64 as htlc minimum, nil feature vector
C1_Witness ==
    /\ brd.pc = "decoded"
    /\ brd.data.RelayInfo.BaseFee = Repeat(255, 4)
    /\ brd.data.Constraints = Some([MaxCltvExpiry |-> 4, HtlcMinimumMsat |-> Repeat(255, 8)])
    /\ brd.data.Features = None({})
    /\ brd.decoded = brd.data

(***************************************************************************)
(* The stream parser and the variable-length integer codec on their own:   *)
(* sc holds the one call made and its outcome.                             *)
(***************************************************************************)
SCOthers == << fc, wm, na, brd, pm, iv >>

MaxRecords == 3      \* most records of a stream handed to the parser

\* the values encoded: the samples of every width and the values next to the
\* limits of the four forms
VarIntValues ==
    UintSamples(8)
      \cup { U64(n) : n \in { 0, 252, 253, 254, 255, 256, 65535, 65536 } }
      \cup { << 0, 0, 0, 0, 255, 255, 255, 255 >>, << 0, 0, 0, 1, 0, 0, 0, 0 >> }

\* the prefix of the form with w payload bytes
Prefix(w) == IF w = 2 THEN 253 ELSE IF w = 4 THEN 254 ELSE 255

\* v written in the form with w payload bytes, minimal or not
Form(v, w) == << Prefix(w) >> \o SubSeq(v, 9 - w, 8)

\* v is below 256^w
Below(v, w) == SubSeq(v, 1, 8 - w) = Repeat(0, 8 - w)

\* the length of the shortest form of v
MinimalLen(v) ==
    IF Below(v, 1) /\ v[8] <= 252 THEN 1
    ELSE IF Below(v, 2) THEN 3
    ELSE IF Below(v, 4) THEN 5
    ELSE 9

\* the records a stream is made of, in any order
StreamRecs == { Raw(t, val) : t \in { 1, 2, 3, 300 }, val \in { <<>>, << 7, 8 >> } }

EncodeVarInt ==
    /\ sc = IdleSC
    /\ \E v \in VarIntValues :
         sc' = [op |-> "writevarint", val |-> v, bytes |-> BigSizeEncode(v)]
    /\ UNCHANGED SCOthers

\* a reader holding a prefixed form of v, whole or with its last byte missing
DecodeVarInt ==
    /\ sc = IdleSC
    /\ \E v \in VarIntValues, w \in { 2, 4, 8 }, cut \in { 0, 1 } :
         /\ Below(v, w)
         /\ sc' = [op |-> "readvarint", val |-> v, w |-> w, cut |-> cut,
                   bytes |-> Take(Form(v, w), 1 + w - cut),
                   res |-> BigSizeDecode(Take(Form(v, w), 1 + w - cut))]
    /\ UNCHANGED SCOthers

\* the parser on the bytes of up to MaxRecords records, whole or with the
\* last byte missing
ParseRecords ==
    /\ sc = IdleSC
    /\ \E n \in 0..MaxRecords :
         \E recs \in [1..n -> StreamRecs], cut \in { 0, 1 } :
            /\ cut <= n
            /\ sc' = [op |-> "parse", sent |-> recs, cut |-> cut,
                      bytes |-> Take(SerializeRaw(recs), Len(SerializeRaw(recs)) - cut),
                      res |-> ParseStream(Take(SerializeRaw(recs),
                                               Len(SerializeRaw(recs)) - cut))]
    /\ UNCHANGED SCOthers

StreamInit ==
    /\ sc = IdleSC
    /\ fc = NoCall
    /\ wm = IdleWM
    /\ na = NAStart
    /\ brd = IdleBRD
    /\ pm = IdlePM
    /\ iv = IdleIV

StreamNext ==
    \/ EncodeVarInt
    \/ DecodeVarInt
    \/ ParseRecords

SpecStream == StreamInit /\ [][StreamNext]_vars

TypesOf(recs) == [i \in 1..Len(recs) |-> recs[i].type]

\* C14: parsing fails, and yields no raw stream, if a record's type is not
\* strictly greater than the type before it (descending or duplicate) or if
\* a length prefix claims more bytes than remain; every stream that parses
\* has strictly increasing types.
C14_ParseRejectsDisorderAndOverrun ==
    sc.op = "parse" =>
        /\ ~StrictlyAscending(TypesOf(sc.sent)) => (~sc.res.ok /\ sc.res.recs = <<>>)
        /\ sc.cut > 0 => (~sc.res.ok /\ sc.res.recs = <<>>)
        /\ sc.res.ok => StrictlyAscending(TypesOf(sc.res.recs))

\* the types [2, 2] fail to parse
C14_Witness ==
    /\ sc.op = "parse"
    /\ TypesOf(sc.sent) = << 2, 2 >>
    /\ sc.cut = 0
    /\ ~sc.res.ok

\* C15: for every unsigned 64-bit value n, decode(encode(n)) = n, encode(n)
\* has the minimal width (1 byte up to 252, 0xFD and 2 bytes up to 65535,
\* 0xFE and 4 bytes up to 2^32-1, 0xFF and 8 bytes above), and decoding a
\* wider-than-minimal encoding of n is rejected.
C15_VarIntMinimalRoundTrip ==
    /\ sc.op = "writevarint" =>
         /\ Len(sc.bytes) = MinimalLen(sc.val)
         /\ Len(sc.bytes) > 1 => sc.bytes = Form(sc.val, Len(sc.bytes) - 1)
         /\ BigSizeDecode(sc.bytes) = VarInt(TRUE, sc.val, Len(sc.bytes))
    /\ (sc.op = "readvarint" /\ sc.cut = 0 /\ 1 + sc.w > MinimalLen(sc.val)) => ~sc.res.ok

\* 65535 in the 4-byte form is rejected
C15_Witness ==
    /\ sc.op = "readvarint"
    /\ sc.bytes = << 254, 0, 0, 255, 255 >>
    /\ ~sc.res.ok

(***************************************************************************)
(* lncfg.Invoices.Validate (src/unnamed/part_000).  The multiplier, a      *)
(* float64 in the code, is held in tenths: 11 stands for 1.1.  iv holds    *)
(* the one call made, the error it returned and the warnings it logged.    *)
(***************************************************************************)
IVOthers == << fc, wm, na, brd, sc, pm >>

\* declared in another file of package lncfg
DefaultIncomingBroadcastDelta == 10

DefaultHoldInvoiceExpiryDelta == DefaultIncomingBroadcastDelta + 2

DefaultBlindedPathPolicyIncreaseMultiplier == 11

\* A Validate that refuses a hold expiry delta it only ought to warn about.
ValidateRefusesHoldDelta(i) ==
    [err |-> IF i.HoldExpiryDelta <= DefaultIncomingBroadcastDelta THEN "holdexpirydelta"
             ELSE IF i.BlindedPaths.MinNumHops > i.BlindedPaths.MaxNumHops THEN "hops"
             ELSE IF i.BlindedPaths.PolicyIncreaseMultiplier <= 0 THEN "multiplier"
             ELSE "nil",
     warnings |-> {}]

\* Validate: the error returned ("nil" for none) and the warnings logged
Validate(i) ==
    [err |-> IF i.BlindedPaths.MinNumHops > i.BlindedPaths.MaxNumHops THEN "hops"
             ELSE IF i.BlindedPaths.PolicyIncreaseMultiplier <= 0 THEN "multiplier"
             ELSE "nil",
     warnings |->
         (IF i.HoldExpiryDelta <= DefaultIncomingBroadcastDelta
          THEN { "holdexpirydelta" } ELSE {})
           \cup (IF i.BlindedPaths.MinNumHops = 0 THEN { "minnumhops" } ELSE {})]

\* the configurations tried
HoldDeltas ==
    { 0, DefaultIncomingBroadcastDelta - 1, DefaultIncomingBroadcastDelta,
      DefaultIncomingBroadcastDelta + 1, DefaultHoldInvoiceExpiryDelta }

HopCounts == { 0, 1, 2, 3, 255 }

Multipliers == { -10, -1, 0, 1, 5, 9, 10, DefaultBlindedPathPolicyIncreaseMultiplier, 20 }

Invoices(hold, min, max, paths, mult) ==
    [HoldExpiryDelta |-> hold,
     BlindedPaths |-> [MinNumHops |-> min, MaxNumHops |-> max, MaxNumPaths |-> paths,
                       PolicyIncreaseMultiplier |-> mult]]

Validated(i, v) == [op |-> "validate", cfg |-> i, err |-> v.err, warnings |-> v.warnings]

ValidateInvoices ==
    /\ iv = IdleIV
    /\ \E hold \in HoldDeltas, min \in HopCounts, max \in HopCounts, paths \in { 0, 3 },
          mult \in Multipliers :
         iv' = Validated(Invoices(hold, min, max, paths, mult),
                         Validate(Invoices(hold, min, max, paths, mult)))
    /\ UNCHANGED IVOthers

InvoicesInit ==
    /\ iv = IdleIV
    /\ fc = NoCall
    /\ wm = IdleWM
    /\ na = NAStart
    /\ brd = IdleBRD
    /\ sc = IdleSC
    /\ pm = IdlePM

InvoicesNext == ValidateInvoices

SpecInvoices == InvoicesInit /\ [][InvoicesNext]_vars

\* C17: Validate returns an error whenever MinNumHops is greater than
\* MaxNumHops, and never because of HoldExpiryDelta (whatever its value) or
\* because MinNumHops is zero: those two only produce a warning.
C17_HopsErrorAndWarningsOnly ==
    iv.op = "validate" =>
        /\ iv.cfg.BlindedPaths.MinNumHops > iv.cfg.BlindedPaths.MaxNumHops => iv.err # "nil"
        /\ \A h \in HoldDeltas : Validate([iv.cfg EXCEPT !.HoldExpiryDelta = h]).err = iv.err
        /\ (iv.cfg.BlindedPaths.MinNumHops = 0 /\ iv.err # "nil") => iv.err = "multiplier"
        /\ iv.cfg.HoldExpiryDelta <= DefaultIncomingBroadcastDelta
               => "holdexpirydelta" \in iv.warnings
        /\ iv.cfg.BlindedPaths.MinNumHops = 0 => "minnumhops" \in iv.warnings

\* a zero hold expiry delta and a zero minimum are accepted with two warnings
C17_Witness ==
    /\ iv.op = "validate"
    /\ iv.cfg.HoldExpiryDelta = 0
    /\ iv.cfg.BlindedPaths.MinNumHops = 0
    /\ iv.err = "nil"
    /\ iv.warnings = { "holdexpirydelta", "minnumhops" }

\* C18: every configuration whose PolicyIncreaseMultiplier is not greater
\* than 1 is rejected with an error.
C18_MultiplierMustExceedOne ==
    (iv.op = "validate" /\ iv.cfg.BlindedPaths.PolicyIncreaseMultiplier <= 10)
        => iv.err # "nil"

(***************************************************************************)
(* The ping manager as TestPingManager drives it                           *)
(* (src/peer/ping_manager_test.go): Start, the first ping, a pong handed   *)
(* to ReceivedPong after a delay, and the test's look at the failure       *)
(* channel half a second later.  The manager itself is not among the       *)
(* sampled files; its steps follow the contract the test states and the    *)
(* callbacks it configures.  Time is counted in half seconds from the      *)
(* moment the ping is sent.                                                *)
(***************************************************************************)
PMOthers == << fc, wm, na, brd, sc, iv >>

MaxPongDelay == 5        \* longest delay of the pong tried, in half seconds

TimeoutDuration == 2     \* time.Second
IntervalDuration == 4    \* time.Second * 2
NewPongSize == 4         \* the pong size every ping asks for
EvaluateWindow == 1      \* time.Second / 2

\* the lengths of the PongBytes tried
PongSizes == { 0, 3, 4, 5 }

NoPong == [size |-> 0, at |-> -1]

PMState(pc, elapsed, delay, size, pong, failures) ==
    [pc |-> pc, elapsed |-> elapsed, delay |-> delay, size |-> size, pong |-> pong,
     failures |-> failures]

\* OnPongFailure is called and the manager gives up
PongFailure(m) == [m EXCEPT !.pc = "failed", !.failures = @ + 1]

\* A manager that takes every pong for the answer to its ping.
PongHandledAnySize(m, size) ==
    IF m.pc = "waiting" THEN [m EXCEPT !.pc = "idle"] ELSE m

\* the manager's step on a pong: with a ping outstanding, a pong of the
\* requested size settles it and any other size is a failure; with no ping
\* outstanding, or after a failure, nothing happens
PongHandled(m, size) ==
    IF m.pc = "waiting"
    THEN IF size = NewPongSize THEN [m EXCEPT !.pc = "idle"] ELSE PongFailure(m)
    ELSE m

\* mgr.Start() and <-pingSent: the first ping is out; the test case fixes the
\* delay and the size of the pong to come
StartAndPing ==
    /\ pm.pc = "new"
    /\ \E delay \in 0..MaxPongDelay, size \in PongSizes :
         pm' = PMState("waiting", 0, delay, size, NoPong, 0)
    /\ UNCHANGED PMOthers

\* half a second passes: not past the moment the pong is due, the moment the
\* timeout is due while the ping is outstanding, or the test's look
Tick ==
    /\ pm.pc \in { "waiting", "idle", "failed" }
    /\ pm.pong = NoPong => pm.elapsed < pm.delay
    /\ pm.pong # NoPong => pm.elapsed < pm.pong.at + EvaluateWindow
    /\ pm.pc = "waiting" => pm.elapsed < TimeoutDuration
    /\ pm.pc = "idle" => pm.elapsed < IntervalDuration
    /\ pm' = [pm EXCEPT !.elapsed = @ + 1]
    /\ UNCHANGED PMOthers

\* the timeout of the outstanding ping expires
PongTimeout ==
    /\ pm.pc = "waiting"
    /\ pm.elapsed >= TimeoutDuration
    /\ pm' = PongFailure(pm)
    /\ UNCHANGED PMOthers

\* mgr.ReceivedPong(&res) once the test has slept for the delay
ReceivedPong ==
    /\ pm.pc \in { "waiting", "idle", "failed" }
    /\ pm.pong = NoPong
    /\ pm.elapsed = pm.delay
    /\ pm' = [PongHandled(pm, pm.size) EXCEPT !.pong = [size |-> pm.size, at |-> pm.elapsed]]
    /\ UNCHANGED PMOthers

\* the test's select, EvaluateWindow after the pong, and mgr.Stop()
EvaluateAndStop ==
    /\ pm.pc \in { "idle", "failed" }
    /\ pm.pong # NoPong
    /\ pm.elapsed = pm.pong.at + EvaluateWindow
    /\ pm' = [pm EXCEPT !.pc = "stopped"]
    /\ UNCHANGED PMOthers

PingInit ==
    /\ pm = IdlePM
    /\ fc = NoCall
    /\ wm = IdleWM
    /\ na = NAStart
    /\ brd = IdleBRD
    /\ sc = IdleSC
    /\ iv = IdleIV

PingNext ==
    \/ StartAndPing
    \/ Tick
    \/ PongTimeout
    \/ ReceivedPong
    \/ EvaluateAndStop

SpecPing == PingInit /\ [][PingNext]_vars

\* C16: after the manager has sent a ping, OnPongFailure is invoked if and
\* only if no pong arrives within the timeout or the pong that arrives has
\* not the requested size; when a pong of the requested size arrives within
\* the timeout no failure is ever emitted for that ping.  (A pong handed over
\* at the very moment the timeout expires may be taken either way.)
C16_FailureIffTimeoutOrBadPong ==
    pm.pc # "new" =>
        /\ pm.failures \in { 0, 1 }
        /\ pm.failures = 1 =>
             \/ pm.elapsed >= TimeoutDuration /\ (pm.pong = NoPong \/ pm.pong.at >= TimeoutDuration)
             \/ pm.pong # NoPong /\ pm.pong.size # NewPongSize
        /\ (pm.pong # NoPong /\ pm.pong.size = NewPongSize /\ pm.pong.at < TimeoutDuration)
               => pm.failures = 0
        /\ (pm.pong # NoPong /\ (pm.pong.size # NewPongSize \/ pm.pong.at > TimeoutDuration))
               => pm.failures = 1

\* the test's Timeout case: a pong of the right size after two seconds
C16_Witness ==
    /\ pm.pc = "stopped"
    /\ pm.pong = [size |-> NewPongSize, at |-> 4]
    /\ pm.failures = 1

====
